---- MODULE Spec2Model ----
(***************************************************************************)
(* Offline-first synchronisation of the to-do client:                      *)
(*   StorageService / SyncService  (client/src/services/storageService.js) *)
(*   ApiService                    (client/src/services/apiService.js)     *)
(*   TaskService                   (unnamed/part_004)                      *)
(*   taskReducer / TaskProvider    (client/src/pages/Tasks.jsx)            *)
(*   task routes                   (server/src/routes/tasks.js)            *)
(***************************************************************************)
EXTENDS Integers, Sequences, FiniteSets, TLC

(***************************************************************************)
(* Bounds of the model.                                                    *)
(***************************************************************************)
MaxTempTasks == 1      \* offline_ ids handed out by createOfflineTask
MaxServerTasks == 2    \* ObjectIds handed out by the server
MaxTime == 1           \* largest value of the clock (Date.now / new Date())
MaxRand == 1           \* number of distinct Math.random() outcomes
MaxQueue == 2          \* most operations held in the sync queue
MaxSink == 1           \* most entries of the reducer's task list
MaxExecutions == 2     \* concurrent invocations of syncPendingChanges

Titles == {"a", "b"}
Users == {"u1"}                \* the user whose session the client starts with
Accounts == Users \cup {"u2"}   \* the users who can log in on this client

(***************************************************************************)
(* Identifiers.  A task id is either a server ObjectId or the string       *)
(* `offline_${Date.now()}_${Math.random()}`; the namespace is kept as the  *)
(* field ns so that startsWith('offline_') is a test on it.                *)
(***************************************************************************)
ServerIds == {[ns |-> "srv", n |-> k] : k \in 1..MaxServerTasks}
TempIds == {[ns |-> "offline", n |-> k] : k \in 1..MaxTempTasks}
TaskIds == ServerIds \cup TempIds
UndefinedId == [ns |-> "undefined", n |-> 0]

StartsWithOffline(id) == id.ns = "offline"

\* String order of two task ids: an ObjectId is 24 hex digits, so it sorts
\* before any "offline_..." string; inside a namespace ids sort by age.
IdLess(a, b) ==
  \/ a.ns = "srv" /\ b.ns = "offline"
  \/ a.ns = b.ns /\ a.n < b.n

\* Object spread {...base, ...ext}
Spread(base, ext) ==
  [f \in DOMAIN base \cup DOMAIN ext |-> IF f \in DOMAIN ext THEN ext[f] ELSE base[f]]

\* JavaScript property reads: a missing property reads as undefined.
PropId(o) == IF "_id" \in DOMAIN o THEN o._id ELSE UndefinedId
PropUserId(o) == IF "userId" \in DOMAIN o THEN o.userId ELSE "undefined"

RECURSIVE SortedById(_)
SortedById(S) ==
  IF S = {} THEN <<>>
  ELSE LET m == CHOOSE x \in S : \A y \in S \ {x} : IdLess(x._id, y._id)
       IN <<m>> \o SortedById(S \ {m})

SeqToSet(s) == {s[i] : i \in 1..Len(s)}

RECURSIVE SelectSeq2(_, _)
\* Array.prototype.filter(t => t._id !== id)
SelectSeq2(s, id) ==
  IF s = <<>> THEN <<>>
  ELSE IF PropId(Head(s)) # id THEN <<Head(s)>> \o SelectSeq2(Tail(s), id)
       ELSE SelectSeq2(Tail(s), id)

\* Array.prototype.findIndex(t => t._id === id), 0 when there is none
FindIndex(s, id) ==
  IF \E i \in 1..Len(s) : PropId(s[i]) = id
  THEN CHOOSE i \in 1..Len(s) :
         PropId(s[i]) = id /\ \A j \in 1..(i - 1) : PropId(s[j]) # id
  ELSE 0

VARIABLES
  useLocalStorage,  \* StorageService.useLocalStorage (IndexedDB could not open)
  idbTasks,         \* IndexedDB object store 'tasks', keyPath '_id'
  lsTasks,          \* localStorage items `tasks_${userId}`
  idbQueue,         \* IndexedDB object store 'sync_queue', keyPath 'id'
  lsQueue,          \* localStorage item 'sync_queue'
  isOnline,         \* SyncService.isOnline
  syncInProgress,   \* SyncService.syncInProgress
  userId,           \* SyncService.userId
  dispatch,         \* SyncService.dispatch is set
  pc,               \* position of each invocation of syncPendingChanges
  syncQueue,        \* the local `syncQueue` of each invocation
  pos,              \* index of the drain loop of each invocation
  sink,             \* taskReducer state.tasks
  server,           \* the Task collection of the server
  nextServerId,     \* next ObjectId the server assigns
  nextTempId,       \* next offline_ id
  now,              \* the clock
  origin,           \* for each ObjectId, the offline_ id whose Create produced it
  direct,           \* reference: the server had every user action been applied online
  processed,        \* indices of the pass handed to processOperation
  failed,           \* [pos, notFound]: indices of the pass whose gateway call failed
  acked,            \* Creates the gateway acknowledged in the pass
  refused,          \* a call of syncPendingChanges returned at its guard during this pass
  enqueued,         \* keys of the queued operations, in the order addToSyncQueue stored them
  token             \* the user of apiService.token and of localStorage token/user

storageVars == <<useLocalStorage, idbTasks, lsTasks, idbQueue, lsQueue, enqueued>>
syncVars == <<isOnline, syncInProgress, userId, token, dispatch, pc, syncQueue, pos>>
vars == <<useLocalStorage, idbTasks, lsTasks, idbQueue, lsQueue, isOnline,
          syncInProgress, userId, token, dispatch, pc, syncQueue, pos, sink, server,
          nextServerId, nextTempId, now, origin, direct, processed, failed,
          acked, refused, enqueued>>

(***************************************************************************)
(* StorageService.  The persistent state is passed around as one record    *)
(* st = [tasks, ls, queue, lsq]; every method returns [threw, st] (and a   *)
(* value where it has one), threw meaning that the promise rejected.       *)
(***************************************************************************)
Storage == [tasks |-> idbTasks, ls |-> lsTasks, queue |-> idbQueue, lsq |-> lsQueue]

LsKeys == Accounts \cup {"undefined"}

\* getTasks(userId)
GetTasks(st, uid) ==
  IF useLocalStorage
  THEN st.ls[uid]
  ELSE SortedById({t \in st.tasks : t.userId = uid})

\* a saveTask whose fallback branch pushes without looking for the _id
SaveTaskPush(st, task) ==
  IF useLocalStorage
  THEN [threw |-> FALSE,
        st |-> [st EXCEPT !.ls[PropUserId(task)] = Append(st.ls[PropUserId(task)], task)]]
  ELSE IF "_id" \notin DOMAIN task
       THEN [threw |-> TRUE, st |-> st]
       ELSE [threw |-> FALSE,
             st |-> [st EXCEPT !.tasks =
                       {t \in st.tasks : t._id # task._id} \cup {task}]]

\* saveTask(task).  IndexedDB: store.put on a store with keyPath '_id' and no
\* key generator raises DataError when the value has no _id.
SaveTask(st, task) ==
  IF useLocalStorage
  THEN LET key == PropUserId(task)
           tasks == st.ls[key]
           existingIndex == FindIndex(tasks, PropId(task))
           saved == IF existingIndex >= 1
                    THEN [tasks EXCEPT ![existingIndex] = task]
                    ELSE Append(tasks, task)
       IN [threw |-> FALSE, st |-> [st EXCEPT !.ls[key] = saved]]
  ELSE IF "_id" \notin DOMAIN task
       THEN [threw |-> TRUE, st |-> st]
       ELSE [threw |-> FALSE,
             st |-> [st EXCEPT !.tasks =
                       {t \in st.tasks : t._id # task._id} \cup {task}]]

\* deleteTask(taskId, userId)
DeleteTask(st, taskId, uid) ==
  IF useLocalStorage
  THEN [threw |-> FALSE, st |-> [st EXCEPT !.ls[uid] = SelectSeq2(st.ls[uid], taskId)]]
  ELSE [threw |-> FALSE, st |-> [st EXCEPT !.tasks = {t \in st.tasks : t._id # taskId}]]

\* Order of the keys `${type}_${taskId}_${Math.random()}` of the sync_queue
\* store, as IndexedDB compares strings.
TypeRank(type) == CASE type = "CREATE" -> 1 [] type = "DELETE" -> 2 [] type = "UPDATE" -> 3

KeyLess(k1, k2) ==
  \/ TypeRank(k1.type) < TypeRank(k2.type)
  \/ k1.type = k2.type /\ IdLess(k1.taskId, k2.taskId)
  \/ k1.type = k2.type /\ k1.taskId = k2.taskId /\ k1.rand < k2.rand

\* store.add(syncItem): the records of an object store are kept in key order
StoreAdd(queue, syncItem) ==
  LET k == Cardinality({i \in 1..Len(queue) : KeyLess(queue[i].id, syncItem.id)})
  IN SubSeq(queue, 1, k) \o <<syncItem>> \o SubSeq(queue, k + 1, Len(queue))

\* addToSyncQueue(operation).  In the localStorage mode this.getSyncQueue() is
\* not awaited, so `queue` is a Promise and queue.push raises TypeError.
\* The timestamp property of the item is read nowhere and is left out.
AddToSyncQueue(st, operation, time, rand) ==
  LET syncItem == Spread(operation,
                         [id |-> [type |-> operation.type, taskId |-> operation.taskId,
                                  rand |-> rand]])
  IN IF useLocalStorage
     THEN [threw |-> TRUE, st |-> st]
     ELSE IF \E i \in 1..Len(st.queue) : st.queue[i].id = syncItem.id
          THEN [threw |-> TRUE, st |-> st]
          ELSE [threw |-> FALSE, st |-> [st EXCEPT !.queue = StoreAdd(st.queue, syncItem)]]

\* getSyncQueue()
GetSyncQueue(st) == IF useLocalStorage THEN st.lsq ELSE st.queue

RECURSIVE WithoutKey(_, _)
WithoutKey(queue, id) ==
  IF queue = <<>> THEN <<>>
  ELSE IF Head(queue).id # id THEN <<Head(queue)>> \o WithoutKey(Tail(queue), id)
       ELSE WithoutKey(Tail(queue), id)

\* a removal that empties the store instead of deleting the one key
RemoveFromSyncQueueClear(st, id) ==
  IF useLocalStorage
  THEN [threw |-> TRUE, st |-> st]
  ELSE [threw |-> FALSE, st |-> [st EXCEPT !.queue = <<>>]]

\* removeFromSyncQueue(id).  localStorage mode: the same missing await, so
\* queue.filter raises TypeError.
RemoveFromSyncQueue(st, id) ==
  IF useLocalStorage
  THEN [threw |-> TRUE, st |-> st]
  ELSE [threw |-> FALSE, st |-> [st EXCEPT !.queue = WithoutKey(st.queue, id)]]

(***************************************************************************)
(* The task routes of the server and the client's ApiService/TaskService.  *)
(* A route returns [status, body, server]: the HTTP status, the JSON body  *)
(* and the collection afterwards.                                          *)
(***************************************************************************)
RECURSIVE NewestFirst(_)
\* Task.find(filter).sort({createdAt: -1}): ObjectIds grow with creation time
NewestFirst(S) ==
  IF S = {} THEN <<>>
  ELSE LET m == CHOOSE x \in S : \A y \in S \ {x} : IdLess(y._id, x._id)
       IN <<m>> \o NewestFirst(S \ {m})

\* A JSON array; a JSON object is a record.  Only an array has filter().
JsonArray(seq) == [items |-> seq]
IsArray(v) == "items" \in DOMAIN v

\* router.get('/') without query parameters; the body is the envelope
\* {success, tasks, pagination}, of which pagination is read nowhere
GetRoute(srv, uid) ==
  [status |-> 200,
   body |-> [success |-> TRUE,
             tasks |-> JsonArray(NewestFirst({t \in srv : t.userId = uid}))],
   server |-> srv]

\* the catch blocks of the routes: status 500, nothing written
ServerError(srv) ==
  [status |-> 500, body |-> [success |-> FALSE, message |-> "Server error"], server |-> srv]

\* router.post('/')
PostRoute(srv, uid, reqBody, newId, time) ==
  LET task == Spread(Spread(reqBody, [userId |-> uid]), [_id |-> newId, updatedAt |-> time])
  IN [status |-> 201, body |-> [success |-> TRUE, task |-> task],
      server |-> srv \cup {task}]

\* router.put('/:id'); an id that is no ObjectId makes the query throw a
\* CastError, which the route's catch answers with 500
PutRoute(srv, uid, id, reqBody, time) ==
  IF id.ns # "srv" THEN ServerError(srv)
  ELSE IF \E t \in srv : t._id = id /\ t.userId = uid
  THEN LET old == CHOOSE t \in srv : t._id = id /\ t.userId = uid
           task == Spread(Spread(old, reqBody), [updatedAt |-> time])
       IN [status |-> 200, body |-> [success |-> TRUE, task |-> task],
           server |-> (srv \ {old}) \cup {task}]
  ELSE [status |-> 404, body |-> [success |-> FALSE, message |-> "Task not found"],
        server |-> srv]

\* router.delete('/:id')
DeleteRoute(srv, uid, id) ==
  IF id.ns # "srv" THEN ServerError(srv)
  ELSE IF \E t \in srv : t._id = id /\ t.userId = uid
  THEN [status |-> 200,
        body |-> [success |-> TRUE, message |-> "Task deleted successfully"],
        server |-> {t \in srv : t._id # id}]
  ELSE [status |-> 404, body |-> [success |-> FALSE, message |-> "Task not found"],
        server |-> srv]

\* What the network does to one request.
NetOutcomes == {"delivered", "serverError", "networkError"}
Net(online) == IF online THEN NetOutcomes ELSE {"networkError"}

\* ApiService.request: fetch rejects on a network failure, a response that is
\* not ok is thrown as an Error, otherwise the parsed JSON body is returned
\* as it is.
Request(net, route, srv) ==
  IF net = "networkError"
  THEN [threw |-> TRUE, error |-> "network", value |-> [success |-> FALSE], server |-> srv]
  ELSE LET res == IF net = "serverError" THEN ServerError(srv) ELSE route
       IN IF res.status >= 400
          THEN [threw |-> TRUE, error |-> IF res.status = 404 THEN "notFound" ELSE "server",
                value |-> res.body, server |-> res.server]
          ELSE [threw |-> FALSE, error |-> "none", value |-> res.body, server |-> res.server]

\* The routes read req.user, the user of the bearer token; a request without
\* token gets no further than the authentication and is answered 401.
NoUser == "null"
Authenticated(uid, route, srv) ==
  IF uid = NoUser
  THEN [status |-> 401, body |-> [success |-> FALSE, message |-> "Not authorized"],
        server |-> srv]
  ELSE route

\* TaskService; uid is the user of the token that ApiService.request attaches
TsGetTasks(net, srv, uid) ==
  Request(net, Authenticated(uid, GetRoute(srv, uid), srv), srv)
TsCreateTask(net, srv, uid, taskData, newId, time) ==
  Request(net, Authenticated(uid, PostRoute(srv, uid, taskData, newId, time), srv), srv)
TsUpdateTask(net, srv, uid, taskId, updates, time) ==
  Request(net, Authenticated(uid, PutRoute(srv, uid, taskId, updates, time), srv), srv)
TsDeleteTask(net, srv, uid, taskId) ==
  Request(net, Authenticated(uid, DeleteRoute(srv, uid, taskId), srv), srv)

(***************************************************************************)
(* taskReducer                                                             *)
(***************************************************************************)
ReduceAddTask(tasks, payload) == <<payload>> \o tasks
ReduceUpdateTask(tasks, payload) ==
  [i \in 1..Len(tasks) |->
     IF PropId(tasks[i]) = PropId(payload) THEN payload ELSE tasks[i]]
ReduceDeleteTask(tasks, id) == SelectSeq2(tasks, id)
ReduceSyncOfflineTasks(tasks, payload) == payload

(***************************************************************************)
(* SyncService                                                             *)
(***************************************************************************)
NoCall == [method |-> "none", taskId |-> UndefinedId, result |-> "none"]
Call(method, taskId, r) ==
  [method |-> method, taskId |-> taskId, result |-> IF r.threw THEN r.error ELSE "ok"]

\* getOfflineTasks()
GetOfflineTasks(st) == IF userId = NoUser THEN <<>> ELSE GetTasks(st, userId)

\* createOfflineTask(taskData)
CreateOfflineTask(st, taskData, tempId, time, rand) ==
  LET offlineTask == Spread(taskData, [_id |-> tempId, userId |-> userId,
                                       updatedAt |-> time, isOffline |-> TRUE])
      saved == SaveTask(st, offlineTask)
      queued == AddToSyncQueue(saved.st,
                  [type |-> "CREATE", taskId |-> tempId, data |-> taskData], time, rand)
  IN [threw |-> queued.threw, st |-> queued.st, value |-> offlineTask]

\* an updateOfflineTask that stores and enqueues the update also when the
\* task is not in the local store
UpdateOfflineTaskUpsert(st, taskId, updates, time, rand) ==
  LET tasks == GetOfflineTasks(st)
      i == FindIndex(tasks, taskId)
      updatedTask == Spread(Spread(IF i >= 1 THEN tasks[i]
                                   ELSE [_id |-> taskId, userId |-> userId], updates),
                            [updatedAt |-> time])
      saved == SaveTask(st, updatedTask)
      queued == AddToSyncQueue(saved.st,
                  [type |-> "UPDATE", taskId |-> taskId, data |-> updates],
                  time, rand)
  IN [threw |-> queued.threw, st |-> queued.st, value |-> updatedTask]

\* an updateOfflineTask that leaves the time of the update out of the record
\* and stamps it with the epoch
UpdateOfflineTaskUnstamped(st, taskId, updates, time, rand) ==
  LET tasks == GetOfflineTasks(st)
      i == FindIndex(tasks, taskId)
  IN IF i >= 1
     THEN LET updatedTask == Spread(Spread(tasks[i], updates), [updatedAt |-> 0])
              saved == SaveTask(st, updatedTask)
              queued == AddToSyncQueue(saved.st,
                          [type |-> "UPDATE", taskId |-> taskId, data |-> updates],
                          time, rand)
          IN [threw |-> queued.threw, st |-> queued.st, value |-> updatedTask]
     ELSE [threw |-> TRUE, st |-> st, value |-> [message |-> "Task not found"]]

\* updateOfflineTask(taskId, updates)
UpdateOfflineTask(st, taskId, updates, time, rand) ==
  LET tasks == GetOfflineTasks(st)
      i == FindIndex(tasks, taskId)
  IN IF i >= 1
     THEN LET updatedTask == Spread(Spread(tasks[i], updates), [updatedAt |-> time])
              saved == SaveTask(st, updatedTask)
              queued == AddToSyncQueue(saved.st,
                          [type |-> "UPDATE", taskId |-> taskId, data |-> updates],
                          time, rand)
          IN [threw |-> queued.threw, st |-> queued.st, value |-> updatedTask]
     ELSE [threw |-> TRUE, st |-> st, value |-> [message |-> "Task not found"]]

\* deleteOfflineTask(taskId)
DeleteOfflineTask(st, taskId, time, rand) ==
  LET deleted == DeleteTask(st, taskId, userId)
      queued == AddToSyncQueue(deleted.st, [type |-> "DELETE", taskId |-> taskId],
                               time, rand)
  IN [threw |-> queued.threw, st |-> queued.st]

\* processOperation(operation): [threw, st, sink, server, call, created]
ProcessOperation(st, tasks, srv, operation, net, newId, time) ==
  CASE operation.type = "CREATE" ->
         LET r == TsCreateTask(net, srv, token, operation.data, newId, time)
             newTask == r.value
             deleted == DeleteTask(st, operation.taskId, userId)
             saved == SaveTask(deleted.st, newTask)
         IN IF r.threw
            THEN [threw |-> TRUE, st |-> st, sink |-> tasks, server |-> r.server,
                  call |-> Call("POST", operation.taskId, r), created |-> FALSE]
            ELSE IF saved.threw
                 THEN [threw |-> TRUE, st |-> deleted.st, sink |-> tasks,
                       server |-> r.server,
                       call |-> Call("POST", operation.taskId, r), created |-> TRUE]
                 ELSE [threw |-> FALSE, st |-> saved.st,
                       sink |-> IF dispatch THEN ReduceUpdateTask(tasks, newTask)
                                ELSE tasks,
                       server |-> r.server,
                       call |-> Call("POST", operation.taskId, r), created |-> TRUE]
    [] operation.type = "UPDATE" ->
         LET localTasks == GetOfflineTasks(st)
             i == FindIndex(localTasks, operation.taskId)
         IN IF i >= 1 /\ ~StartsWithOffline(localTasks[i]._id)
            THEN LET r == TsUpdateTask(net, srv, token, operation.taskId,
                                       operation.data, time)
                     updatedTask == r.value
                     saved == SaveTask(st, updatedTask)
                 IN IF r.threw
                    THEN [threw |-> TRUE, st |-> st, sink |-> tasks, server |-> r.server,
                          call |-> Call("PUT", operation.taskId, r), created |-> FALSE]
                    ELSE IF saved.threw
                         THEN [threw |-> TRUE, st |-> st, sink |-> tasks,
                               server |-> r.server,
                               call |-> Call("PUT", operation.taskId, r),
                               created |-> FALSE]
                         ELSE [threw |-> FALSE, st |-> saved.st,
                               sink |-> IF dispatch
                                        THEN ReduceUpdateTask(tasks, updatedTask)
                                        ELSE tasks,
                               server |-> r.server,
                               call |-> Call("PUT", operation.taskId, r),
                               created |-> FALSE]
            ELSE [threw |-> FALSE, st |-> st, sink |-> tasks, server |-> srv,
                  call |-> NoCall, created |-> FALSE]
    [] operation.type = "DELETE" ->
         IF ~StartsWithOffline(operation.taskId)
         THEN LET r == TsDeleteTask(net, srv, token, operation.taskId)
              IN [threw |-> r.threw, st |-> st, sink |-> tasks, server |-> r.server,
                  call |-> Call("DELETE", operation.taskId, r), created |-> FALSE]
         ELSE [threw |-> FALSE, st |-> st, sink |-> tasks, server |-> srv,
               call |-> NoCall, created |-> FALSE]
    [] OTHER ->
         [threw |-> FALSE, st |-> st, sink |-> tasks, server |-> srv,
          call |-> NoCall, created |-> FALSE]

RECURSIVE FilterNew(_, _)
\* serverTasks.filter(serverTask => !localTasks.some(lt => lt._id === serverTask._id))
FilterNew(serverTasks, localTasks) ==
  IF serverTasks = <<>> THEN <<>>
  ELSE LET rest == FilterNew(Tail(serverTasks), localTasks)
       IN IF FindIndex(localTasks, PropId(Head(serverTasks))) = 0
          THEN <<Head(serverTasks)>> \o rest
          ELSE rest

RECURSIVE FilterUpdated(_, _)
\* serverTasks.filter(serverTask => localTask &&
\*     new Date(serverTask.updatedAt) > new Date(localTask.updatedAt))
FilterUpdated(serverTasks, localTasks) ==
  IF serverTasks = <<>> THEN <<>>
  ELSE LET rest == FilterUpdated(Tail(serverTasks), localTasks)
           i == FindIndex(localTasks, PropId(Head(serverTasks)))
       IN IF i >= 1 /\ Head(serverTasks).updatedAt > localTasks[i].updatedAt
          THEN <<Head(serverTasks)>> \o rest
          ELSE rest

RECURSIVE SaveAll(_, _)
\* for (const task of [...newTasks, ...updatedTasks]) await saveTask(task)
SaveAll(st, tasks) ==
  IF tasks = <<>> THEN [threw |-> FALSE, st |-> st]
  ELSE LET saved == SaveTask(st, Head(tasks))
       IN IF saved.threw THEN saved ELSE SaveAll(saved.st, Tail(tasks))

\* a reconciliation that adds the server's list without looking at what is there
SyncFromServerAppend(st, tasks, srv, net) ==
  LET r == TsGetTasks(net, srv, token)
      list == IF r.threw THEN <<>> ELSE r.value.tasks.items
  IN [st |-> IF r.threw THEN st
             ELSE [st EXCEPT !.tasks = st.tasks \cup SeqToSet(list),
                             !.ls[userId] = st.ls[userId] \o list],
      sink |-> IF dispatch THEN tasks \o list ELSE tasks,
      call |-> Call("GET", UndefinedId, r)]

\* a reconciliation that replaces the user's local records by the server's list
SyncFromServerReplace(st, tasks, srv, net) ==
  LET r == TsGetTasks(net, srv, token)
      list == IF r.threw THEN <<>> ELSE r.value.tasks.items
  IN [st |-> IF r.threw THEN st
             ELSE [st EXCEPT !.tasks = {t \in st.tasks : t.userId # userId}
                                         \cup SeqToSet(list),
                             !.ls[userId] = list],
      sink |-> tasks,
      call |-> Call("GET", UndefinedId, r)]

\* syncFromServer(): [st, sink, call]; every error is caught and logged
SyncFromServer(st, tasks, srv, net) ==
  LET r == TsGetTasks(net, srv, token)
      serverTasks == r.value
  IN IF r.threw \/ ~IsArray(serverTasks)
     THEN [st |-> st, sink |-> tasks, call |-> Call("GET", UndefinedId, r)]
     ELSE LET localTasks == GetOfflineTasks(st)
              newTasks == FilterNew(serverTasks.items, localTasks)
              updatedTasks == FilterUpdated(serverTasks.items, localTasks)
              saved == SaveAll(st, newTasks \o updatedTasks)
          IN [st |-> saved.st,
              sink |-> IF ~saved.threw /\ dispatch
                          /\ (Len(newTasks) > 0 \/ Len(updatedTasks) > 0)
                       THEN ReduceSyncOfflineTasks(tasks, GetOfflineTasks(saved.st))
                       ELSE tasks,
              call |-> Call("GET", UndefinedId, r)]

(***************************************************************************)
(* The reference server `direct`: what the server would hold had every     *)
(* user action been applied to it directly.                                *)
(***************************************************************************)
Executions == 1..MaxExecutions

\* the key under which the reference holds the task a client id stands for
KeyOf(id) == IF id \in ServerIds /\ origin[id] # UndefinedId THEN origin[id] ELSE id

DirectCreate(d, key, taskData) == d \cup {[key |-> key, title |-> taskData.title]}
DirectUpdate(d, key, updates) ==
  {IF x.key = key THEN [x EXCEPT !.title = updates.title] ELSE x : x \in d}
DirectDelete(d, key) == {x \in d : x.key # key}

\* the enqueue order after the store became `queue`: removed keys leave, the
\* key just added goes last
Track(queue) ==
  LET keys == {queue[i].id : i \in 1..Len(queue)}
      kept == SelectSeq(enqueued, LAMBDA k : k \in keys)
      added == keys \ SeqToSet(enqueued)
  IN IF added = {} THEN kept ELSE Append(kept, CHOOSE k \in added : TRUE)

SetStorage(st) ==
  /\ idbTasks' = st.tasks
  /\ lsTasks' = st.ls
  /\ idbQueue' = st.queue
  /\ lsQueue' = st.lsq
  /\ enqueued' = Track(st.queue)

NewServerId == [ns |-> "srv", n |-> nextServerId]
NewTempId == [ns |-> "offline", n |-> nextTempId]
Rands == 0..(MaxRand - 1)
\* Math.random() never returns a value that would repeat a key still in use
UsedKeys ==
  {idbQueue[i].id : i \in 1..Len(idbQueue)}
    \cup UNION {{syncQueue[e][i].id : i \in 1..Len(syncQueue[e])} : e \in Executions}
FreshRands(type, taskId) ==
  {r \in Rands : [type |-> type, taskId |-> taskId, rand |-> r] \notin UsedKeys}
IssuedIds ==
  {id \in TaskIds : IF id.ns = "srv" THEN id.n < nextServerId ELSE id.n < nextTempId}

Init ==
  /\ useLocalStorage \in BOOLEAN
  /\ idbTasks = {}
  /\ lsTasks = [k \in LsKeys |-> <<>>]
  /\ idbQueue = <<>>
  /\ lsQueue = <<>>
  /\ isOnline \in BOOLEAN
  /\ syncInProgress = FALSE
  /\ userId = NoUser
  /\ dispatch = FALSE
  /\ pc = [e \in Executions |-> "idle"]
  /\ syncQueue = [e \in Executions |-> <<>>]
  /\ pos = [e \in Executions |-> 1]
  /\ sink = <<>>
  /\ server = {}
  /\ nextServerId = 1
  /\ nextTempId = 1
  /\ now = 0
  /\ origin = [id \in ServerIds |-> UndefinedId]
  /\ direct = {}
  /\ processed = {}
  /\ failed = {}
  /\ acked = {}
  /\ refused = FALSE
  /\ enqueued = <<>>
  /\ token \in Users

\* SyncService.init(dispatch), called by TaskProvider once authenticated
SyncInit ==
  /\ token # NoUser
  /\ userId # token
  /\ userId' = token
  /\ dispatch' = TRUE
  /\ UNCHANGED <<token, refused, storageVars, isOnline, syncInProgress, pc, syncQueue, pos, sink,
                 server, nextServerId, nextTempId, now, origin, direct,
                 processed, failed, acked>>

\* the clock advances
Tick ==
  /\ now < MaxTime
  /\ now' = now + 1
  /\ UNCHANGED <<refused, storageVars, syncVars, sink, server, nextServerId, nextTempId,
                 origin, direct, processed, failed, acked>>

(***************************************************************************)
(* TaskProvider.createTask / updateTask / deleteTask.  net is what the     *)
(* network does to the request of the try block.                           *)
(***************************************************************************)
\* whether the promise of createTask / updateTask / deleteTask rejects: r is
\* the gateway call of the try block, off the offline call of the catch block
Rejects(r, off) ==
  IF ~r.threw THEN FALSE     \* return of the try block
  ELSE IF off.threw THEN TRUE   \* the offline call's own error propagates
  ELSE TRUE                     \* throw error

CreateTask(taskData, net) ==
  /\ userId # NoUser
  /\ Len(sink) < MaxSink
  /\ \E rand \in FreshRands("CREATE", NewTempId) :
       LET r == TsCreateTask(net, server, token, taskData, NewServerId, now)
           off == CreateOfflineTask(Storage, taskData, NewTempId, now, rand)
       IN IF ~r.threw
          THEN /\ nextServerId <= MaxServerTasks
               /\ server' = r.server
               /\ nextServerId' = nextServerId + 1
               /\ sink' = ReduceAddTask(sink, r.value)
               /\ direct' = DirectCreate(direct, NewServerId, taskData)
               /\ UNCHANGED <<storageVars, nextTempId>>
          ELSE /\ nextTempId <= MaxTempTasks
               /\ Len(idbQueue) < MaxQueue
               /\ SetStorage(off.st)
               /\ nextTempId' = nextTempId + 1
               /\ sink' = IF off.threw THEN sink ELSE ReduceAddTask(sink, off.value)
               /\ direct' = IF off.threw THEN direct
                            ELSE DirectCreate(direct, NewTempId, taskData)
               /\ UNCHANGED <<useLocalStorage, server, nextServerId>>
  /\ UNCHANGED <<refused, syncVars, now, origin, processed, failed, acked>>

UpdateTask(taskId, updates, net) ==
  /\ userId # NoUser
  /\ \E rand \in FreshRands("UPDATE", taskId) :
       LET r == TsUpdateTask(net, server, token, taskId, updates, now)
           off == UpdateOfflineTask(Storage, taskId, updates, now, rand)
       IN IF ~r.threw
          THEN /\ server' = r.server
               /\ sink' = ReduceUpdateTask(sink, r.value)
               /\ direct' = DirectUpdate(direct, KeyOf(taskId), updates)
               /\ UNCHANGED storageVars
          ELSE /\ Len(idbQueue) < MaxQueue
               /\ SetStorage(off.st)
               /\ sink' = IF off.threw THEN sink ELSE ReduceUpdateTask(sink, off.value)
               /\ direct' = IF off.threw THEN direct
                            ELSE DirectUpdate(direct, KeyOf(taskId), updates)
               /\ UNCHANGED <<useLocalStorage, server>>
  /\ UNCHANGED <<refused, syncVars, nextServerId, nextTempId, now, origin, processed,
                 failed, acked>>

DeleteTaskAction(taskId, net) ==
  /\ userId # NoUser
  /\ \E rand \in FreshRands("DELETE", taskId) :
       LET r == TsDeleteTask(net, server, token, taskId)
           off == DeleteOfflineTask(Storage, taskId, now, rand)
       IN IF ~r.threw
          THEN /\ server' = r.server
               /\ sink' = ReduceDeleteTask(sink, taskId)
               /\ direct' = DirectDelete(direct, KeyOf(taskId))
               /\ UNCHANGED storageVars
          ELSE /\ Len(idbQueue) < MaxQueue
               /\ SetStorage(off.st)
               /\ sink' = IF off.threw THEN sink ELSE ReduceDeleteTask(sink, taskId)
               /\ direct' = IF off.threw THEN direct
                            ELSE DirectDelete(direct, KeyOf(taskId))
               /\ UNCHANGED <<useLocalStorage, server>>
  /\ UNCHANGED <<refused, syncVars, nextServerId, nextTempId, now, origin, processed,
                 failed, acked>>

(***************************************************************************)
(* syncPendingChanges and its triggers                                     *)
(***************************************************************************)
\* the entry guard without its test of the in-progress flag
EntryGuardNoFlag(online) == online /\ userId # NoUser

\* if (!this.isOnline || this.syncInProgress || !this.userId) return
EntryGuard(online) == online /\ ~syncInProgress /\ userId # NoUser

\* an invocation of syncPendingChanges() up to its first await
SyncPendingChangesCall(online) ==
  IF EntryGuard(online)
  THEN /\ \E e \in Executions :
            /\ pc[e] = "idle"
            /\ \A f \in 1..(e - 1) : pc[f] # "idle"
            /\ pc' = [pc EXCEPT ![e] = "getQueue"]
       /\ syncInProgress' = TRUE
       /\ processed' = {}
       /\ failed' = {}
       /\ acked' = {}
       /\ refused' = FALSE
  ELSE /\ refused' = (refused \/ syncInProgress)
       /\ UNCHANGED <<syncInProgress, pc, processed, failed, acked>>

\* window 'online' listener
OnlineEvent ==
  /\ ~isOnline
  /\ isOnline' = TRUE
  /\ SyncPendingChangesCall(TRUE)
  /\ UNCHANGED <<storageVars, userId, token, dispatch, syncQueue, pos, sink, server,
                 nextServerId, nextTempId, now, origin, direct>>

\* window 'offline' listener
OfflineEvent ==
  /\ isOnline
  /\ isOnline' = FALSE
  /\ UNCHANGED <<refused, storageVars, syncInProgress, userId, token, dispatch, pc, syncQueue, pos,
                 sink, server, nextServerId, nextTempId, now, origin, direct,
                 processed, failed, acked>>

\* the setInterval callback started by init()
TimerTick ==
  /\ dispatch
  /\ isOnline /\ ~syncInProgress
  /\ SyncPendingChangesCall(isOnline)
  /\ UNCHANGED <<storageVars, isOnline, userId, token, dispatch, syncQueue, pos, sink,
                 server, nextServerId, nextTempId, now, origin, direct>>

\* a direct call of syncService.syncPendingChanges()
ManualSync ==
  /\ SyncPendingChangesCall(isOnline)
  /\ UNCHANGED <<storageVars, isOnline, userId, token, dispatch, syncQueue, pos, sink,
                 server, nextServerId, nextTempId, now, origin, direct>>

\* const syncQueue = await storageService.getSyncQueue()
GetQueueStep(e) ==
  /\ pc[e] = "getQueue"
  /\ syncQueue' = [syncQueue EXCEPT ![e] = GetSyncQueue(Storage)]
  /\ pos' = [pos EXCEPT ![e] = 1]
  /\ pc' = [pc EXCEPT ![e] = "drain"]
  /\ UNCHANGED <<refused, storageVars, isOnline, syncInProgress, userId, token, dispatch, sink,
                 server, nextServerId, nextTempId, now, origin, direct,
                 processed, failed, acked>>

GatewayFailed(call) == call.result \in {"network", "server", "notFound"}

\* a loop whose catch sits outside it: the first failure ends the drain
NextPosAbort(p, threw, len) == IF threw THEN len + 1 ELSE p + 1

\* for (const operation of syncQueue): the catch inside the loop body lets
\* the loop go on to the next operation
NextPos(p, threw, len) == p + 1

\* one iteration of the drain loop: processOperation, then removeFromSyncQueue,
\* both inside the try whose catch keeps the operation
DrainStep(e, net) ==
  /\ pc[e] = "drain"
  /\ pos[e] <= Len(syncQueue[e])
  /\ LET operation == syncQueue[e][pos[e]]
         r == ProcessOperation(Storage, sink, server, operation, net, NewServerId, now)
         removed == RemoveFromSyncQueue(r.st, operation.id)
     IN /\ r.created => nextServerId <= MaxServerTasks
        /\ SetStorage(IF r.threw THEN r.st ELSE removed.st)
        /\ sink' = r.sink
        /\ server' = r.server
        /\ nextServerId' = IF r.created THEN nextServerId + 1 ELSE nextServerId
        /\ origin' = IF r.created
                     THEN [origin EXCEPT ![NewServerId] = operation.taskId]
                     ELSE origin
        /\ processed' = processed \cup {pos[e]}
        /\ failed' = IF GatewayFailed(r.call)
                     THEN failed \cup {[pos |-> pos[e],
                                         notFound |-> r.call.result = "notFound"]}
                     ELSE failed
        /\ acked' = IF r.created
                    THEN acked \cup {[op |-> operation.id, serverId |-> NewServerId]}
                    ELSE acked
        /\ pos' = [pos EXCEPT ![e] = NextPos(pos[e], r.threw, Len(syncQueue[e]))]
  /\ UNCHANGED <<refused, useLocalStorage, isOnline, syncInProgress, userId, token, dispatch, pc,
                 syncQueue, nextTempId, now, direct>>

\* await this.syncFromServer()
ReconcileStep(e, net) ==
  /\ pc[e] = "drain"
  /\ pos[e] > Len(syncQueue[e])
  /\ LET r == SyncFromServer(Storage, sink, server, net)
     IN /\ SetStorage(r.st)
        /\ sink' = r.sink
  /\ pc' = [pc EXCEPT ![e] = "finally"]
  /\ UNCHANGED <<refused, useLocalStorage, isOnline, syncInProgress, userId, token, dispatch,
                 syncQueue, pos, server, nextServerId, nextTempId, now, origin,
                 direct, processed, failed, acked>>

\* a flag that is cleared after the try block instead of in a finally: a pass
\* in which a call failed leaves it set
FinallyStepAfterTry(e) ==
  /\ pc[e] = "finally"
  /\ syncInProgress' = (failed # {})
  /\ pc' = [pc EXCEPT ![e] = "idle"]
  /\ syncQueue' = [syncQueue EXCEPT ![e] = <<>>]
  /\ pos' = [pos EXCEPT ![e] = 1]
  /\ processed' = {}
  /\ failed' = {}
  /\ acked' = {}
  /\ refused' = FALSE
  /\ UNCHANGED <<storageVars, isOnline, userId, token, dispatch, sink, server,
                 nextServerId, nextTempId, now, origin, direct>>

\* finally { this.syncInProgress = false }
FinallyStep(e) ==
  /\ pc[e] = "finally"
  /\ syncInProgress' = FALSE
  /\ pc' = [pc EXCEPT ![e] = "idle"]
  /\ syncQueue' = [syncQueue EXCEPT ![e] = <<>>]
  /\ pos' = [pos EXCEPT ![e] = 1]
  /\ processed' = {}
  /\ failed' = {}
  /\ acked' = {}
  /\ refused' = FALSE
  /\ UNCHANGED <<storageVars, isOnline, userId, token, dispatch, sink, server,
                 nextServerId, nextTempId, now, origin, direct>>

Next ==
  \/ SyncInit
  \/ Tick
  \/ \E taskData \in [title : Titles], net \in Net(isOnline) : CreateTask(taskData, net)
  \/ \E taskId \in IssuedIds, updates \in [title : Titles], net \in Net(isOnline) :
       UpdateTask(taskId, updates, net)
  \/ \E taskId \in IssuedIds, net \in Net(isOnline) : DeleteTaskAction(taskId, net)
  \/ OnlineEvent
  \/ OfflineEvent
  \/ TimerTick
  \/ ManualSync
  \/ \E e \in Executions : GetQueueStep(e)
  \/ \E e \in Executions, net \in Net(isOnline) : DrainStep(e, net)
  \/ \E e \in Executions, net \in Net(isOnline) : ReconcileStep(e, net)
  \/ \E e \in Executions : FinallyStep(e)

Spec == Init /\ [][Next]_vars

(***************************************************************************)
(* Offline replay: the user works offline, the connection returns once and *)
(* the pass that the online event starts meets a gateway that accepts      *)
(* every request.                                                          *)
(***************************************************************************)
InitReplay == Init /\ ~isOnline

NextReplay ==
  \/ SyncInit
  \/ Tick
  \/ \E taskData \in [title : Titles] :
       ~isOnline /\ CreateTask(taskData, "networkError")
  \/ \E taskId \in IssuedIds, updates \in [title : Titles] :
       ~isOnline /\ UpdateTask(taskId, updates, "networkError")
  \/ \E taskId \in IssuedIds : ~isOnline /\ DeleteTaskAction(taskId, "networkError")
  \/ OnlineEvent
  \/ \E e \in Executions : GetQueueStep(e)
  \/ \E e \in Executions : DrainStep(e, "delivered")
  \/ \E e \in Executions : ReconcileStep(e, "delivered")
  \/ \E e \in Executions : FinallyStep(e)

SpecReplay == InitReplay /\ [][NextReplay]_vars

(***************************************************************************)
(* Connection loss: as the offline replay, but the connection may drop and *)
(* return at any moment; a request is delivered exactly when the client is *)
(* online.                                                                 *)
(***************************************************************************)
LinkNet == IF isOnline THEN "delivered" ELSE "networkError"

NextDrop ==
  \/ SyncInit
  \/ \E taskData \in [title : Titles] :
       ~isOnline /\ CreateTask(taskData, "networkError")
  \/ \E taskId \in IssuedIds, updates \in [title : Titles] :
       ~isOnline /\ UpdateTask(taskId, updates, "networkError")
  \/ \E taskId \in IssuedIds : ~isOnline /\ DeleteTaskAction(taskId, "networkError")
  \/ OnlineEvent
  \/ OfflineEvent
  \/ \E e \in Executions : GetQueueStep(e)
  \/ \E e \in Executions : DrainStep(e, LinkNet)
  \/ \E e \in Executions : ReconcileStep(e, LinkNet)
  \/ \E e \in Executions : FinallyStep(e)

SpecDrop == InitReplay /\ [][NextDrop]_vars

(***************************************************************************)
(* A request without answer: as the offline replay, with the timer, and    *)
(* with a gateway that may leave a request of the pass unanswered for      *)
(* ever.  fetch is called without timeout or abort signal, so the await of *)
(* that request never resumes.                                             *)
(***************************************************************************)
HangStep(e) ==
  /\ pc[e] = "drain"
  /\ \/ pos[e] > Len(syncQueue[e])
     \/ /\ pos[e] <= Len(syncQueue[e])
        /\ ProcessOperation(Storage, sink, server, syncQueue[e][pos[e]], "delivered",
                            NewServerId, now).call.method # "none"
  /\ pc' = [pc EXCEPT ![e] = "hung"]
  /\ UNCHANGED <<storageVars, isOnline, syncInProgress, userId, token, dispatch, syncQueue, pos,
                 sink, server, nextServerId, nextTempId, now, origin, direct,
                 processed, failed, acked, refused>>

NextHang ==
  \/ NextReplay
  \/ TimerTick
  \/ \E e \in Executions : HangStep(e)

\* the event loop runs every continuation that is ready, the interval timer
\* keeps firing, and the connection comes back
SpecHang ==
  /\ InitReplay
  /\ [][NextHang]_vars
  /\ WF_vars(TimerTick)
  /\ WF_vars(OnlineEvent)
  /\ \A e \in Executions :
       WF_vars(GetQueueStep(e) \/ DrainStep(e, "delivered")
                 \/ ReconcileStep(e, "delivered") \/ FinallyStep(e))

(***************************************************************************)
(* Every call answers: as the connection loss, but a request that reaches  *)
(* the gateway may also be answered with a server error, the read of the   *)
(* queue may reject, and every continuation of a pass runs once its call   *)
(* has returned or failed.                                                 *)
(***************************************************************************)
\* const syncQueue = await storageService.getSyncQueue() rejects: the outer
\* catch logs 'Sync failed' and the finally block follows
GetQueueFails(e) ==
  /\ pc[e] = "getQueue"
  /\ pc' = [pc EXCEPT ![e] = "finally"]
  /\ failed' = failed \cup {[pos |-> 0, notFound |-> FALSE]}
  /\ UNCHANGED <<storageVars, isOnline, syncInProgress, userId, token, dispatch, syncQueue,
                 pos, sink, server, nextServerId, nextTempId, now, origin, direct,
                 processed, acked, refused>>

NextAnswered ==
  \/ SyncInit
  \/ \E taskData \in [title : Titles] :
       ~isOnline /\ CreateTask(taskData, "networkError")
  \/ \E taskId \in IssuedIds, updates \in [title : Titles] :
       ~isOnline /\ UpdateTask(taskId, updates, "networkError")
  \/ \E taskId \in IssuedIds : ~isOnline /\ DeleteTaskAction(taskId, "networkError")
  \/ OnlineEvent
  \/ OfflineEvent
  \/ \E e \in Executions : GetQueueStep(e)
  \/ \E e \in Executions : GetQueueFails(e)
  \/ \E e \in Executions, net \in Net(isOnline) : DrainStep(e, net)
  \/ \E e \in Executions, net \in Net(isOnline) : ReconcileStep(e, net)
  \/ \E e \in Executions : FinallyStep(e)

SpecAnswered ==
  /\ InitReplay
  /\ [][NextAnswered]_vars
  /\ \A e \in Executions :
       WF_vars(GetQueueStep(e) \/ GetQueueFails(e)
                 \/ (\E net \in Net(isOnline) : DrainStep(e, net))
                 \/ (\E net \in Net(isOnline) : ReconcileStep(e, net))
                 \/ FinallyStep(e))

(***************************************************************************)
(* Edits after the acknowledgement: as the connection loss, but the user   *)
(* updates and deletes only tasks whose Create the gateway has already     *)
(* acknowledged, under the temp id the task list shows for them.           *)
(***************************************************************************)
AcknowledgedTempIds ==
  {id \in TempIds \cap IssuedIds : \E sid \in ServerIds : origin[sid] = id}

NextAfterAck ==
  \/ SyncInit
  \/ \E taskData \in [title : Titles] :
       ~isOnline /\ CreateTask(taskData, "networkError")
  \/ \E taskId \in AcknowledgedTempIds, updates \in [title : Titles] :
       UpdateTask(taskId, updates, LinkNet)
  \/ \E taskId \in AcknowledgedTempIds : DeleteTaskAction(taskId, LinkNet)
  \/ OnlineEvent
  \/ OfflineEvent
  \/ \E e \in Executions : GetQueueStep(e)
  \/ \E e \in Executions : DrainStep(e, LinkNet)
  \/ \E e \in Executions : ReconcileStep(e, LinkNet)
  \/ \E e \in Executions : FinallyStep(e)

SpecAfterAck == InitReplay /\ [][NextAfterAck]_vars

(***************************************************************************)
(* The sync_queue store on its own: addToSyncQueue and removeFromSyncQueue *)
(* called with every operation within the bounds.                          *)
(***************************************************************************)
QueueOperations ==
  {[type |-> "CREATE", taskId |-> id, data |-> d] : id \in TempIds, d \in [title : Titles]}
    \cup {[type |-> "UPDATE", taskId |-> id, data |-> d] :
             id \in TaskIds, d \in [title : Titles]}
    \cup {[type |-> "DELETE", taskId |-> id] : id \in TaskIds}

\* a Create is enqueued under an id that createOfflineTask has just made up,
\* so no operation of that id is queued before it
EnqueueOp(operation, rand) ==
  /\ Len(idbQueue) < MaxQueue
  /\ operation.type = "CREATE" =>
       \A i \in 1..Len(idbQueue) : idbQueue[i].taskId # operation.taskId
  /\ SetStorage(AddToSyncQueue(Storage, operation, now, rand).st)
  /\ UNCHANGED <<useLocalStorage, syncVars, sink, server, nextServerId, nextTempId,
                 now, origin, direct, processed, failed, acked, refused>>

RemoveOp(id) ==
  /\ \E i \in 1..Len(idbQueue) : idbQueue[i].id = id
  /\ SetStorage(RemoveFromSyncQueue(Storage, id).st)
  /\ UNCHANGED <<useLocalStorage, syncVars, sink, server, nextServerId, nextTempId,
                 now, origin, direct, processed, failed, acked, refused>>

NextQueue ==
  \/ \E operation \in QueueOperations, rand \in Rands : EnqueueOp(operation, rand)
  \/ \E id \in SeqToSet(enqueued) : RemoveOp(id)

SpecQueue == Init /\ [][NextQueue]_vars

(***************************************************************************)
(* syncFromServer on its own: the reconciliation of a pass whose queue was *)
(* empty, applied to every local store and every server collection within  *)
(* the bounds, the gateway answering.                                      *)
(***************************************************************************)
LocalRecords ==
  {[title |-> "a", _id |-> id, userId |-> u, updatedAt |-> t] :
     id \in ServerIds, u \in Users, t \in 0..MaxTime}
    \cup {[title |-> "a", _id |-> id, userId |-> u, updatedAt |-> t, isOffline |-> TRUE] :
            id \in TempIds, u \in Users, t \in 0..MaxTime}

ServerRecords ==
  {[title |-> "b", userId |-> u, _id |-> id, updatedAt |-> t] :
     id \in ServerIds, u \in Users, t \in 0..MaxTime}

\* collections keyed by _id
Keyed(S) == \A x \in S, y \in S : x._id = y._id => x = y

InitReconcile ==
  /\ useLocalStorage \in BOOLEAN
  /\ \E L \in {S \in SUBSET LocalRecords : Keyed(S)} :
       /\ idbTasks = IF useLocalStorage THEN {} ELSE L
       /\ lsTasks = [k \in LsKeys |->
                       IF useLocalStorage
                       THEN SortedById({t \in L : t.userId = k})
                       ELSE <<>>]
  /\ server \in {S \in SUBSET ServerRecords : Keyed(S)}
  /\ idbQueue = <<>>
  /\ lsQueue = <<>>
  /\ isOnline = TRUE
  /\ syncInProgress = TRUE
  /\ userId \in Users
  /\ dispatch = TRUE
  /\ pc = [e \in Executions |-> IF e = 1 THEN "drain" ELSE "idle"]
  /\ syncQueue = [e \in Executions |-> <<>>]
  /\ pos = [e \in Executions |-> 1]
  /\ sink = <<>>
  /\ nextServerId = MaxServerTasks + 1
  /\ nextTempId = MaxTempTasks + 1
  /\ now = MaxTime
  /\ origin = [id \in ServerIds |-> UndefinedId]
  /\ direct = {}
  /\ processed = {}
  /\ failed = {}
  /\ acked = {}
  /\ refused = FALSE
  /\ enqueued = <<>>
  /\ token = userId

NextReconcile ==
  \/ \E e \in Executions : ReconcileStep(e, "delivered")
  \/ \E e \in Executions : FinallyStep(e)

SpecReconcile == InitReconcile /\ [][NextReconcile]_vars

(***************************************************************************)
(* Change of user: the user of the first session works offline and logs    *)
(* out, another user logs in on the same client.  The providers stay       *)
(* mounted and syncService is one object for the life of the page, so the  *)
(* stores, the queue, the task list and the timer outlive the session.     *)
(* Only the first user acts on tasks.                                      *)
(***************************************************************************)
\* AuthProvider.logout: the token and the user leave localStorage and
\* apiService; syncService is not told
Logout ==
  /\ token # NoUser
  /\ token' = NoUser
  /\ UNCHANGED <<storageVars, isOnline, syncInProgress, userId, dispatch, pc, syncQueue,
                 pos, sink, server, nextServerId, nextTempId, now, origin, direct,
                 processed, failed, acked, refused>>

\* AuthProvider.login answered by the server: the token and the user are
\* stored; TaskProvider's effect then calls syncService.init (SyncInit)
Login(u) ==
  /\ token = NoUser
  /\ isOnline
  /\ token' = u
  /\ UNCHANGED <<storageVars, isOnline, syncInProgress, userId, dispatch, pc, syncQueue,
                 pos, sink, server, nextServerId, nextTempId, now, origin, direct,
                 processed, failed, acked, refused>>

\* the first user is logged in and syncService.init has run for that user
FirstUserActs == token \in Users /\ userId = token /\ ~isOnline

NextSession ==
  \/ SyncInit
  \/ Logout
  \/ \E u \in Accounts : Login(u)
  \/ \E taskData \in [title : Titles] :
       FirstUserActs /\ CreateTask(taskData, "networkError")
  \/ \E taskId \in IssuedIds, updates \in [title : Titles] :
       FirstUserActs /\ UpdateTask(taskId, updates, "networkError")
  \/ \E taskId \in IssuedIds : FirstUserActs /\ DeleteTaskAction(taskId, "networkError")
  \/ OnlineEvent
  \/ OfflineEvent
  \/ \E e \in Executions : GetQueueStep(e)
  \/ \E e \in Executions : DrainStep(e, LinkNet)
  \/ \E e \in Executions : ReconcileStep(e, LinkNet)
  \/ \E e \in Executions : FinallyStep(e)

SpecSession == InitReplay /\ [][NextSession]_vars

(***************************************************************************)
(* The tasks store on its own: saveTask and deleteTask called with every   *)
(* record and id within the bounds.                                        *)
(***************************************************************************)
SaveTaskCall(task) ==
  /\ SetStorage(SaveTask(Storage, task).st)
  /\ UNCHANGED <<useLocalStorage, syncVars, sink, server, nextServerId, nextTempId,
                 now, origin, direct, processed, failed, acked, refused>>

DeleteTaskCall(taskId, uid) ==
  /\ SetStorage(DeleteTask(Storage, taskId, uid).st)
  /\ UNCHANGED <<useLocalStorage, syncVars, sink, server, nextServerId, nextTempId,
                 now, origin, direct, processed, failed, acked, refused>>

NextStore ==
  \/ \E task \in LocalRecords : SaveTaskCall(task)
  \/ \E taskId \in TaskIds, uid \in Users : DeleteTaskCall(taskId, uid)

SpecStore == Init /\ [][NextStore]_vars

(***************************************************************************)
(* Views of the state used by the properties                               *)
(***************************************************************************)
Running == {e \in Executions : pc[e] # "idle"}
PassEnded(e) == pc[e] = "finally"
LocalList == GetOfflineTasks(Storage)
LocalIds == {PropId(LocalList[i]) : i \in 1..Len(LocalList)}
LocalOf(id) == {t \in SeqToSet(LocalList) : PropId(t) = id}
SinkIds == {PropId(sink[i]) : i \in 1..Len(sink)}
QueueKeys == {GetSyncQueue(Storage)[i].id : i \in 1..Len(GetSyncQueue(Storage))}
IndexOfKey(queue, k) == CHOOSE i \in 1..Len(queue) : queue[i].id = k
ResponseIds == {t._id : t \in {s \in server : s.userId = userId}}
ServerView == {[key |-> KeyOf(t._id), title |-> t.title] : t \in server}
StemsFrom(id) == {t \in server : origin[t._id] = id}
StemsFromEver(id) == {sid \in ServerIds : origin[sid] = id}
SnapshotHas(e, type, id) ==
  \E i \in 1..Len(syncQueue[e]) :
    syncQueue[e][i].type = type /\ syncQueue[e][i].taskId = id
Cancelled(e, id) == SnapshotHas(e, "CREATE", id) /\ SnapshotHas(e, "DELETE", id)
Trigger == TimerTick \/ OnlineEvent \/ ManualSync
PassStep(e) ==
  \/ GetQueueStep(e)
  \/ \E net \in NetOutcomes : DrainStep(e, net)
  \/ \E net \in NetOutcomes : ReconcileStep(e, net)
  \/ FinallyStep(e)

(***************************************************************************)
(* Properties                                                              *)
(***************************************************************************)

\* C1: under every interleaving of timer ticks, online events and direct
\* calls at most one execution of syncPendingChanges is past its entry guard,
\* and a call that arrives while a pass is in progress starts no execution
\* (so issues no gateway call) and changes neither the queue nor the local
\* store, the server or the sink.
SinglePassAtATime ==
  /\ [](Cardinality(Running) <= 1)
  /\ [][(syncInProgress /\ Trigger) =>
          UNCHANGED <<idbTasks, lsTasks, idbQueue, lsQueue, server, sink, pc,
                      syncQueue, pos>>]_vars

\* C1, its case: a call was turned away at the guard while a pass is draining
\* operations.
RefusedWhileDraining ==
  refused /\ \E e \in Executions : pc[e] = "drain" /\ pos[e] <= Len(syncQueue[e])

\* C2: when a pass that replays operations enqueued offline against a gateway
\* accepting every request has ended, the server holds the same tasks with
\* the same field values as the direct application of the user's actions.
ReplayEqualsDirect ==
  \A e \in Executions : PassEnded(e) => ServerView = direct

\* C3: any two queued operations of the same task id are returned by
\* getSyncQueue (and so drained) in the order in which addToSyncQueue stored
\* them.
QueueKeepsEnqueueOrder ==
  \A i \in 1..Len(enqueued), j \in 1..Len(enqueued) :
    (i < j /\ enqueued[i].taskId = enqueued[j].taskId) =>
      IndexOfKey(GetSyncQueue(Storage), enqueued[i])
        < IndexOfKey(GetSyncQueue(Storage), enqueued[j])

\* C4: when the first pass finds the Create and the Delete of one temp id in
\* the queue, it makes no gateway call for that task, and at its end neither
\* the server, nor the local store, nor the queue holds anything of it.
CancelledCreateLeavesNothing ==
  \A e \in Executions : PassEnded(e) =>
    \A id \in TempIds : Cancelled(e, id) =>
      /\ \A a \in acked : a.op.taskId # id
      /\ StemsFrom(id) = {}
      /\ id \notin LocalIds
      /\ \A k \in QueueKeys : k.taskId # id

\* C5: when a pass has acknowledged the Create of a task that the sink holds
\* under its temp id, the sink holds the task under the server-assigned id,
\* no longer holds the temp id, and holds no identifier twice.
SinkSubstitutesServerId ==
  \A e \in Executions : PassEnded(e) =>
    \A a \in acked : ~Cancelled(e, a.op.taskId) =>
      /\ a.serverId \in SinkIds
      /\ a.op.taskId \notin SinkIds
      /\ Cardinality(SinkIds) = Len(sink)

\* C6: at the end of a pass in which the gateway acknowledged a queued Create,
\* the local store holds no record under the temp id, exactly one record
\* under the server-assigned id, and the Create is no longer in the queue.
CreateAckReplacesRecord ==
  \A e \in Executions : PassEnded(e) =>
    \A a \in acked :
      /\ a.op.taskId \notin LocalIds
      /\ Cardinality({i \in 1..Len(LocalList) : PropId(LocalList[i]) = a.serverId}) = 1
      /\ a.op \notin QueueKeys

AbsentRecordsUntouched ==
  [][(\E e \in Executions, net \in NetOutcomes : ReconcileStep(e, net)) =>
       \A id \in TaskIds \ ResponseIds : LocalOf(id)' = LocalOf(id)]_vars

\* C8, its case: a reconciliation has run against a non-empty response while
\* the local store held a record whose id the response lacks.
ReconciledWithLocalOnlyRecord ==
  \E e \in Executions :
    /\ PassEnded(e)
    /\ ResponseIds # {}
    /\ \E id \in TaskIds \ ResponseIds : LocalOf(id) # {}

\* C9: an Update or Delete that the gateway answered with not-found is no
\* longer in the queue at the end of that pass (so it is never sent again).
NotFoundIsResolved ==
  \A e \in Executions : PassEnded(e) =>
    \A f \in failed : f.notFound => syncQueue[e][f.pos].id \notin QueueKeys

\* C10: at the end of a pass every operation of its queue has been handed to
\* processOperation, also those after a failed one, and every operation whose
\* gateway call failed with a network or server error is still in the queue.
FailureDoesNotAbortDrain ==
  \A e \in Executions : PassEnded(e) =>
    /\ processed = 1..Len(syncQueue[e])
    /\ \A f \in failed : ~f.notFound => syncQueue[e][f.pos].id \in QueueKeys

\* C10, its case: a pass has ended in which the gateway call of an operation
\* failed with a network or server error and a later operation followed it.
FailedThenLaterOperation ==
  \E e \in Executions :
    /\ PassEnded(e)
    /\ \E f \in failed : ~f.notFound /\ f.pos < Len(syncQueue[e])

\* C11: once an operation of a pass has failed because the client is offline,
\* the pass sends no further operation to the gateway (so no second operation
\* fails that way), and while the client stays offline the synchronizer is
\* not syncing.
OfflineFailureEndsPass ==
  /\ Cardinality({f \in failed : ~f.notFound}) <= 1
  /\ (~isOnline /\ \E f \in failed : ~f.notFound) => ~syncInProgress

\* C12: an operation that a pass has removed from the queue is one whose
\* gateway request did not fail, and is not an Update of a temp id whose
\* Create the gateway has never acknowledged.
RemovedOnlyWhenSettled ==
  \A e \in Executions : PassEnded(e) =>
    \A i \in 1..Len(syncQueue[e]) :
      syncQueue[e][i].id \notin QueueKeys =>
        /\ \A f \in failed : f.pos # i
        /\ ~(/\ syncQueue[e][i].type = "UPDATE"
             /\ StartsWithOffline(syncQueue[e][i].taskId)
             /\ StemsFromEver(syncQueue[e][i].taskId) = {})

\* C13: a createTask, updateTask or deleteTask whose gateway call fails, but
\* whose mutation was stored locally and enqueued, resolves for its caller.
OfflineFallbackResolves ==
  [][/\ \A taskData \in [title : Titles], net \in NetOutcomes, rand \in Rands :
          (/\ CreateTask(taskData, net)
           /\ TsCreateTask(net, server, token, taskData, NewServerId, now).threw
           /\ Len(idbQueue') = Len(idbQueue) + 1)
          => ~Rejects(TsCreateTask(net, server, token, taskData, NewServerId, now),
                      CreateOfflineTask(Storage, taskData, NewTempId, now, rand))
     /\ \A taskId \in TaskIds, updates \in [title : Titles], net \in NetOutcomes,
           rand \in Rands :
          (/\ UpdateTask(taskId, updates, net)
           /\ TsUpdateTask(net, server, token, taskId, updates, now).threw
           /\ Len(idbQueue') = Len(idbQueue) + 1)
          => ~Rejects(TsUpdateTask(net, server, token, taskId, updates, now),
                      UpdateOfflineTask(Storage, taskId, updates, now, rand))
     /\ \A taskId \in TaskIds, net \in NetOutcomes, rand \in Rands :
          (/\ DeleteTaskAction(taskId, net)
           /\ TsDeleteTask(net, server, token, taskId).threw
           /\ Len(idbQueue') = Len(idbQueue) + 1)
          => ~Rejects(TsDeleteTask(net, server, token, taskId),
                      DeleteOfflineTask(Storage, taskId, now, rand))]_vars

\* C14: in the localStorage fallback mode the operation that createOfflineTask
\* hands to addToSyncQueue is returned by a following getSyncQueue: every
\* temp-id record that createOfflineTask has saved has its Create in the queue.
FallbackQueueHoldsCreate ==
  useLocalStorage =>
    \A id \in TempIds : id \in LocalIds =>
      \E k \in QueueKeys : k.type = "CREATE" /\ k.taskId = id

\* C15: a pass that finds the queue empty changes neither the server (it
\* makes no create, update or delete call) nor the queue; and a reconciliation
\* repeated against the same server leaves the local store and the sink as
\* the first one left them.
EmptyPassIsQuiet ==
  /\ [](userId # NoUser =>
          LET first == SyncFromServer(Storage, sink, server, "delivered")
              second == SyncFromServer(first.st, first.sink, server, "delivered")
          IN second.st = first.st /\ second.sink = first.sink)
  /\ [][\A e \in Executions :
          (PassStep(e) /\ syncQueue'[e] = <<>> /\ syncQueue[e] = <<>>) =>
            /\ server' = server
            /\ GetSyncQueue(Storage)' = GetSyncQueue(Storage)
            /\ nextServerId' = nextServerId]_vars

\* C15, its case: a pass that found the queue empty has reconciled against a
\* server holding tasks of the user.
EmptyPassReconciled ==
  \E e \in Executions :
    PassEnded(e) /\ syncQueue[e] = <<>> /\ GetSyncQueue(Storage) = <<>> /\ ResponseIds # {}

\* C16: a pass one of whose gateway calls never returns does not block the
\* synchronizer: a later timer tick or online event starts a new pass.
HungPassGivesWay ==
  \A e \in Executions :
    (pc[e] = "hung") ~> (\E f \in Executions : pc[f] = "getQueue")

EveryReconnectStartsPass ==
  [][(OnlineEvent /\ userId # NoUser) =>
       \E e \in Executions : pc[e] = "idle" /\ pc'[e] = "getQueue"]_vars

\* C19: saveTask(t) applied twice leaves the store as applied once, with one
\* record under t._id; deleteTask(id) applied twice leaves the store as
\* applied once, applied to an id that is not stored it leaves the store as
\* it was; none of the calls raises an error.
StoreCallsIdempotent ==
  /\ \A task \in LocalRecords :
       LET once == SaveTask(Storage, task)
           twice == SaveTask(once.st, task)
           list == GetTasks(once.st, task.userId)
       IN /\ ~once.threw /\ ~twice.threw
          /\ twice.st = once.st
          /\ {i \in 1..Len(list) : PropId(list[i]) = task._id}
               = {FindIndex(list, task._id)}
          /\ list[FindIndex(list, task._id)] = task
  /\ \A taskId \in TaskIds, uid \in Users :
       LET once == DeleteTask(Storage, taskId, uid)
           twice == DeleteTask(once.st, taskId, uid)
           before == GetTasks(Storage, uid)
       IN /\ ~once.threw /\ ~twice.threw
          /\ twice.st = once.st
          /\ FindIndex(GetTasks(once.st, uid), taskId) = 0
          /\ FindIndex(before, taskId) = 0 => once.st = Storage

\* C19, its case: the store holds records under two ids, one of them saved
\* again with a later updatedAt, after calls of saveTask and deleteTask.
StoreHoldsResavedRecord ==
  \E uid \in Users :
    /\ Len(GetTasks(Storage, uid)) >= 2
    /\ \E i \in 1..Len(GetTasks(Storage, uid)) :
         GetTasks(Storage, uid)[i].updatedAt = MaxTime

\* C20: operations enqueued in one user's session are never sent to the
\* gateway with another user's token: when only the first user acts on tasks,
\* every task on the server belongs to the first user, so the list the
\* server returns to a user who logs in later is empty.
OtherUsersListUntouched == \A t \in server : t.userId \in Users

\* C21: every sync pass that has started ends with the in-progress flag
\* cleared, whatever failed in it, as long as each of its calls returns or
\* fails.
StartedPassEnds ==
  \A e \in Executions :
    (pc[e] = "getQueue") ~> (pc[e] = "idle" /\ ~syncInProgress)

\* C21, its case: a pass in which the gateway call of an operation failed has
\* reached its finally block with the flag still set.
FailedPassReachesFinally ==
  \E e \in Executions :
    pc[e] = "finally" /\ syncInProgress /\ \E f \in failed : f.pos >= 1

\* C22: when the connection was lost while a pass was draining, every
\* operation of the pass's queue that the gateway has not acknowledged is
\* still in the queue when the pass ends, operations on a temp id included.
\* An operation is certainly unacknowledged if the loop has not reached it, if
\* its gateway call failed, or if it is an Update or Delete of a temp id, for
\* which processOperation makes no gateway call.
UnacknowledgedStayQueued ==
  \A e \in Executions :
    (PassEnded(e) /\ \E f \in failed : ~f.notFound) =>
      \A i \in 1..Len(syncQueue[e]) :
        (\/ i \notin processed
         \/ \E f \in failed : f.pos = i
         \/ syncQueue[e][i].type # "CREATE" /\ StartsWithOffline(syncQueue[e][i].taskId))
          => syncQueue[e][i].id \in QueueKeys

\* C23: for every identifier, the updatedAt of its record in the user's local
\* store never decreases from one state to the next, whichever of
\* updateOfflineTask, the drain or the reconciliation writes the store.
UpdatedAtNeverDecreases ==
  [][\A id \in TaskIds :
       \A t \in LocalOf(id) : \A u \in LocalOf(id)' : u.updatedAt >= t.updatedAt]_vars

\* C23, its case: a pass has drained and reconciled while the local store
\* holds a record that updateOfflineTask has rewritten at the latest time (its
\* title differs from the payload of the Create still queued for it).
UpdatedRecordAfterPass ==
  \E e \in Executions :
    /\ PassEnded(e)
    /\ \E t \in SeqToSet(LocalList) :
         /\ t.updatedAt = MaxTime
         /\ \E i \in 1..Len(GetSyncQueue(Storage)) :
              /\ GetSyncQueue(Storage)[i].type = "CREATE"
              /\ GetSyncQueue(Storage)[i].taskId = t._id
              /\ GetSyncQueue(Storage)[i].data.title # t.title

\* C24: over all sync passes the gateway creates at most one task for each
\* local create: no two server-assigned ids stem from one temp id.
CreateSucceedsAtMostOnce ==
  \A id \in TempIds : Cardinality(StemsFromEver(id)) <= 1

PendingEditStaysLocal ==
  ~syncInProgress =>
    \A i \in 1..Len(GetSyncQueue(Storage)) :
      LET op == GetSyncQueue(Storage)[i]
      IN (/\ op.type = "UPDATE"
          /\ ~\E k \in QueueKeys : k.type = "DELETE" /\ k.taskId = op.taskId)
           => \E t \in LocalOf(op.taskId) :
                \E j \in 1..Len(GetSyncQueue(Storage)) :
                  /\ GetSyncQueue(Storage)[j].type = "UPDATE"
                  /\ GetSyncQueue(Storage)[j].taskId = op.taskId
                  /\ GetSyncQueue(Storage)[j].data.title = t.title

\* C27: an Update or Delete enqueued against a temp id after the gateway
\* acknowledged that id's Create reaches the server task the Create produced:
\* once a pass has processed it and taken it out of the queue, no server task
\* stemming from the temp id is left after a Delete, and every one has the
\* payload's title after an Update.
EditAfterAckReachesServer ==
  \A e \in Executions : PassEnded(e) =>
    \A i \in processed :
      LET op == syncQueue[e][i]
      IN (StartsWithOffline(op.taskId) /\ op.id \notin QueueKeys) =>
           /\ op.type = "DELETE" => StemsFrom(op.taskId) = {}
           /\ op.type = "UPDATE" => \A t \in StemsFrom(op.taskId) : t.title = op.data.title

\* C28: whenever no sync pass is in progress (an offline mutation call is one
\* step here), every record of the local store with a temp id has exactly one
\* Create for that id in the queue, in both storage modes.
TempRecordHasOneCreate ==
  ~syncInProgress =>
    \A id \in TempIds : id \in LocalIds =>
      Cardinality({i \in 1..Len(GetSyncQueue(Storage)) :
                     /\ GetSyncQueue(Storage)[i].type = "CREATE"
                     /\ GetSyncQueue(Storage)[i].taskId = id}) = 1

\* C29: an operation that is in the queue but not in the snapshot of the
\* running pass (it was enqueued after the pass read the queue) is left in the
\* queue by every step of that pass, and the snapshot a pass takes holds every
\* operation that is in the queue at that moment, so a later pass dispatches
\* it.
LateOperationsSurvivePass ==
  [][\A e \in Executions :
       /\ ((\E net \in NetOutcomes : DrainStep(e, net) \/ ReconcileStep(e, net))
             \/ FinallyStep(e))
            => \A k \in QueueKeys :
                 (\A i \in 1..Len(syncQueue[e]) : syncQueue[e][i].id # k)
                   => k \in QueueKeys'
       /\ GetQueueStep(e)
            => {syncQueue'[e][i].id : i \in 1..Len(syncQueue'[e])} = QueueKeys]_vars

\* C29, its case: a pass that processed an operation has ended while the queue
\* holds an operation that its snapshot lacks.
PassEndedWithLateOperation ==
  \E e \in Executions :
    /\ PassEnded(e)
    /\ processed # {}
    /\ \E k \in QueueKeys : \A i \in 1..Len(syncQueue[e]) : syncQueue[e][i].id # k

\* C30: updateOfflineTask for a task id that is not in the current user's
\* local store fails with 'Task not found' and leaves the local store and the
\* queue as they were; this includes a task that was created online and is
\* on the server only.
UpdateOfAbsentTaskFails ==
  \A taskId \in TaskIds \ LocalIds, updates \in [title : Titles], rand \in Rands :
    LET r == UpdateOfflineTask(Storage, taskId, updates, now, rand)
    IN /\ r.threw
       /\ r.value = [message |-> "Task not found"]
       /\ r.st = Storage

\* C30, its case: a task created online is on the server and in the sink, but
\* not in the local store, and no Update of it is queued.
OnlineTaskNotInLocalStore ==
  /\ userId # NoUser
  /\ sink # <<>>
  /\ \E id \in ResponseIds :
       /\ id \notin LocalIds
       /\ ~\E k \in QueueKeys : k.type = "UPDATE" /\ k.taskId = id

TypeOK ==
  /\ useLocalStorage \in BOOLEAN
  /\ isOnline \in BOOLEAN
  /\ syncInProgress \in BOOLEAN
  /\ userId \in Accounts \cup {NoUser}
  /\ token \in Accounts \cup {NoUser}
  /\ \A e \in Executions : pc[e] \in {"idle", "getQueue", "drain", "finally", "hung"}
  /\ now \in 0..MaxTime
  /\ Len(idbQueue) <= MaxQueue
  /\ Len(sink) <= MaxSink
  /\ Len(enqueued) = Len(idbQueue)

====
